---------------------------- MODULE Spec2Model ----------------------------
(***************************************************************************)
(* unienv: the runtime dispatch and version gate of src/src/index.ts.      *)
(*                                                                         *)
(* Strings the code computes with (runtime names, version strings, startup *)
(* arguments, exception messages) are sequences of one-character strings,  *)
(* so that prefix tests, concatenation and parsing are computed.  Keys and *)
(* values of environment variables are opaque to index.ts and are TLA+     *)
(* strings.  A Maybe<string> is a sequence of length 0 (absent) or 1.      *)
(***************************************************************************)
EXTENDS Integers, Sequences, FiniteSets, TLC

VARIABLES RuntimeName, version, isSatisfiesVersion, execArgv, env,
          last, prev, prev2

vars == <<RuntimeName, version, isSatisfiesVersion, execArgv, env,
          last, prev, prev2>>

(***************************************************************************)
(* Bounds of the model.                                                    *)
(***************************************************************************)
MaxArgs == 1

Keys == {"K1", "K2"}
Values == {"", "v"}
Messages == { <<"b","o","o","m">>, <<"E","P","E","R","M">> }
PermissionStates == {"granted", "denied", "prompt"}

(***************************************************************************)
(* Maybe<string> and Result (types.ts).                                    *)
(***************************************************************************)
Nothing == <<>>
Just(v) == <<v>>

Ok(payload) == [tag |-> "Ok", payload |-> payload]
Ng(error) == [tag |-> "Ng", error |-> error]

(***************************************************************************)
(* String literals of index.ts.                                            *)
(***************************************************************************)
node == <<"n","o","d","e">>
bun == <<"b","u","n">>
deno == <<"d","e","n","o">>

DotJs == <<".","j","s">>
VersionInfix == <<" ","v","e","r","s","i","o","n"," ">>
RequiredInfix == <<" ","o","r"," ","h","i","g","h","e","r"," ","i","s"," ","r","e","q","u","i","r","e","d","."," ","C","u","r","r","e","n","t"," ","v","e","r","s","i","o","n",":"," ">>
NodeEnvFileRequire == <<"2","0",".","6",".","0">>
EnvFilePrefix == <<"-","-","e","n","v","-","f","i","l","e","=">>

(***************************************************************************)
(* Utils (utils.ts): ucFirst and versioning.moreThan.                      *)
(***************************************************************************)
ToUpperCase(c) == CASE c = "n" -> "N" [] c = "b" -> "B" [] c = "d" -> "D" [] OTHER -> c

ucFirst(str) == IF str = <<>> THEN <<>> ELSE <<ToUpperCase(Head(str))>> \o Tail(str)

DigitValue(c) == CASE c = "0" -> 0 [] c = "1" -> 1 [] c = "2" -> 2 [] c = "3" -> 3 [] c = "4" -> 4 [] c = "5" -> 5 [] c = "6" -> 6 [] c = "7" -> 7 [] c = "8" -> 8 [] c = "9" -> 9

RECURSIVE ParseInt(_)
ParseInt(digits) == IF digits = <<>> THEN 0 ELSE 10 * ParseInt(SubSeq(digits, 1, Len(digits) - 1)) + DigitValue(digits[Len(digits)])

RECURSIVE SplitDots(_)
SplitDots(str) ==
  IF \A i \in 1..Len(str) : str[i] # "."
  THEN <<str>>
  ELSE LET dot == CHOOSE i \in 1..Len(str) : str[i] = "." /\ \A j \in 1..(i - 1) : str[j] # "."
       IN <<SubSeq(str, 1, dot - 1)>> \o SplitDots(SubSeq(str, dot + 1, Len(str)))

ParseVersion(str) == LET parts == SplitDots(str) IN [i \in 1..Len(parts) |-> ParseInt(parts[i])]

moreThan(require, current) ==
  LET r == ParseVersion(require)
      c == ParseVersion(current)
  IN \/ c[1] > r[1]
     \/ c[1] = r[1] /\ c[2] > r[2]
     \/ c[1] = r[1] /\ c[2] = r[2] /\ c[3] >= r[3]

(***************************************************************************)
(* Commons (commons.ts): the version source.  The required version is a    *)
(* constant of commons.ts, the current one is read from the host.          *)
(***************************************************************************)
RequireVersions == { <<"1",".","1","0",".","0">> }
CurrentVersions == { <<"1",".","9",".","0">>, <<"1",".","1","0",".","0">> }

RuntimeNames == {node, bun, deno}

(***************************************************************************)
(* process.execArgv: startup arguments of Runtime A.                       *)
(***************************************************************************)
ArgPool == { <<"-","-","e","n","v","-","f","i","l","e","=",".","e","n","v">>,
             <<"-","-","e","n","v","-","f","i","l","e">> }

ArgLists == UNION { [1..n -> ArgPool] : n \in 0..MaxArgs }

startsWith(str, prefix) == Len(str) >= Len(prefix) /\ SubSeq(str, 1, Len(prefix)) = prefix

\* Variant of IsEnvFileArg: the prefix is tested without its "=".
IsEnvFileArg_NoEquals(execArg) == startsWith(execArg, SubSeq(EnvFilePrefix, 1, Len(EnvFilePrefix) - 1))

IsEnvFileArg(execArg) == startsWith(execArg, EnvFilePrefix)

(***************************************************************************)
(* VersionError and the module-level values of index.ts.                   *)
(***************************************************************************)
VersionError(prop) ==
  [name |-> "VersionError",
   message |-> prop.runtime \o VersionInfix \o prop.version.require \o RequiredInfix \o prop.version.current,
   prop |-> prop.id]

Error(message) == [name |-> "Error", message |-> message, prop |-> "none"]

runtime == ucFirst(IF RuntimeName = node THEN RuntimeName \o DotJs ELSE RuntimeName)

genericVersionError == [id |-> "genericVersionError", runtime |-> runtime, version |-> version]

\* Variant of nodeVersionError: the required version of the generic profile.
nodeVersionError_GenericRequire == [id |-> "nodeVersionError", runtime |-> runtime, version |-> version]

nodeVersionError == [id |-> "nodeVersionError", runtime |-> runtime, version |-> [require |-> NodeEnvFileRequire, current |-> version.current]]


(***************************************************************************)
(* Collaborators.  A call either returns or throws; which one throws in a  *)
(* given operation, and with which message, is an input of the operation   *)
(* (fault).  A call that throws has no effect on the store.                *)
(***************************************************************************)
NoFault == [site |-> "none", message |-> <<>>]
FaultsAt(sites) == {NoFault} \cup [site : sites, message : Messages]

Return(value, e) == [threw |-> FALSE, message |-> <<>>, value |-> value, env |-> e]
Throw(message, e) == [threw |-> TRUE, message |-> message, value |-> Nothing, env |-> e]

\* The .env file: the variables it defines.
EnvFileKeys == {"K1"}
EnvFile == [k \in EnvFileKeys |-> "f"]

EmptyEnv == [k \in Keys |-> Nothing]

\* Environment Store Adapter: Commons.env.set / get / delete.
CommonsEnvSet(e, key, value, fault) ==
  IF fault.site = "env.set" THEN Throw(fault.message, e)
  ELSE Return(Nothing, [e EXCEPT ![key] = Just(value)])

CommonsEnvGet(e, key, fault) ==
  IF fault.site = "env.get" THEN Throw(fault.message, e)
  ELSE Return(e[key], e)

CommonsEnvDelete(e, key, fault) ==
  IF fault.site = "env.delete" THEN Throw(fault.message, e)
  ELSE Return(Nothing, [e EXCEPT ![key] = Nothing])

\* Conditional Env-File Loader: Utils.loadEnvIfNeeded.  Loads the variables
\* of the .env file into the store; a variable the store already holds
\* keeps its value, so that loading twice is loading once.
loadEnvIfNeeded(e, fault) ==
  IF fault.site = "loadEnvIfNeeded" THEN Throw(fault.message, e)
  ELSE Return(Nothing, [k \in Keys |-> IF k \in EnvFileKeys /\ e[k] = Nothing THEN Just(EnvFile[k]) ELSE e[k]])

\* Permission Gate: Commons.permissions({ name: "read" }).
CommonsPermissions(e, permission, fault) ==
  IF fault.site = "permissions" THEN Throw(fault.message, e)
  ELSE Return(permission, e)

(***************************************************************************)
(* What one handler call did: its result, the store it leaves, and the     *)
(* collaborator calls it made, in order.                                   *)
(***************************************************************************)
Outcome(result, e, calls) == [result |-> result, env |-> e, calls |-> calls]

(***************************************************************************)
(* setRuntimeMap                                                           *)
(***************************************************************************)
setNode(key, value, e, fault) ==
  IF ~isSatisfiesVersion
  THEN Outcome(Ng(VersionError(genericVersionError)), e, <<>>)
  ELSE LET r == CommonsEnvSet(e, key, value, fault)
       IN IF r.threw
          THEN Outcome(Ng(Error(r.message)), r.env, <<"env.set">>)
          ELSE Outcome(Ok(r.value), r.env, <<"env.set">>)

setBun(key, value, e, fault) ==
  IF ~isSatisfiesVersion
  THEN Outcome(Ng(VersionError(genericVersionError)), e, <<>>)
  ELSE LET r == CommonsEnvSet(e, key, value, fault)
       IN IF r.threw
          THEN Outcome(Ng(Error(r.message)), r.env, <<"env.set">>)
          ELSE Outcome(Ok(r.value), r.env, <<"env.set">>)

\* Variant of setDeno: the catch block reports success.
setDeno_SwallowsError(key, value, e, fault) ==
  IF ~isSatisfiesVersion
  THEN Outcome(Ng(VersionError(genericVersionError)), e, <<>>)
  ELSE LET r == CommonsEnvSet(e, key, value, fault)
       IN Outcome(Ok(r.value), r.env, <<"env.set">>)

setDeno(key, value, e, fault) ==
  IF ~isSatisfiesVersion
  THEN Outcome(Ng(VersionError(genericVersionError)), e, <<>>)
  ELSE LET r == CommonsEnvSet(e, key, value, fault)
       IN IF r.threw
          THEN Outcome(Ng(Error(r.message)), r.env, <<"env.set">>)
          ELSE Outcome(Ok(r.value), r.env, <<"env.set">>)

(***************************************************************************)
(* getRuntimeMap                                                           *)
(***************************************************************************)
\* Variant of getNode: an empty value is returned as absent.
getNode_EmptyAsAbsent(key, e, fault) ==
  IF ~isSatisfiesVersion
  THEN Outcome(Ng(VersionError(genericVersionError)), e, <<>>)
  ELSE LET envFileSpecified == SelectSeq(execArgv, IsEnvFileArg)
           truthy(m) == IF m = Just("") THEN Nothing ELSE m
       IN IF Len(envFileSpecified) # 0
          THEN LET r == CommonsEnvGet(e, key, fault)
               IN IF r.threw
                  THEN Outcome(Ng(VersionError(nodeVersionError)), r.env, <<"env.get">>)
                  ELSE Outcome(Ok(truthy(r.value)), r.env, <<"env.get">>)
          ELSE LET l == loadEnvIfNeeded(e, fault)
               IN IF l.threw
                  THEN Outcome(Ng(Error(l.message)), l.env, <<"loadEnvIfNeeded">>)
                  ELSE LET r == CommonsEnvGet(l.env, key, fault)
                       IN IF r.threw
                          THEN Outcome(Ng(Error(r.message)), r.env, <<"loadEnvIfNeeded", "env.get">>)
                          ELSE Outcome(Ok(truthy(r.value)), r.env, <<"loadEnvIfNeeded", "env.get">>)

\* Variant of getNode: the loader runs whatever the startup arguments are.
getNode_AlwaysLoads(key, e, fault) ==
  IF ~isSatisfiesVersion
  THEN Outcome(Ng(VersionError(genericVersionError)), e, <<>>)
  ELSE LET l == loadEnvIfNeeded(e, fault)
       IN IF l.threw
          THEN Outcome(Ng(Error(l.message)), l.env, <<"loadEnvIfNeeded">>)
          ELSE LET r == CommonsEnvGet(l.env, key, fault)
               IN IF r.threw
                  THEN Outcome(Ng(Error(r.message)), r.env, <<"loadEnvIfNeeded", "env.get">>)
                  ELSE Outcome(Ok(r.value), r.env, <<"loadEnvIfNeeded", "env.get">>)

getNode(key, e, fault) ==
  IF ~isSatisfiesVersion
  THEN Outcome(Ng(VersionError(genericVersionError)), e, <<>>)
  ELSE LET envFileSpecified == SelectSeq(execArgv, IsEnvFileArg)
       IN IF Len(envFileSpecified) # 0
          THEN LET r == CommonsEnvGet(e, key, fault)
               IN IF r.threw
                  THEN Outcome(Ng(VersionError(nodeVersionError)), r.env, <<"env.get">>)
                  ELSE Outcome(Ok(r.value), r.env, <<"env.get">>)
          ELSE LET l == loadEnvIfNeeded(e, fault)
               IN IF l.threw
                  THEN Outcome(Ng(Error(l.message)), l.env, <<"loadEnvIfNeeded">>)
                  ELSE LET r == CommonsEnvGet(l.env, key, fault)
                       IN IF r.threw
                          THEN Outcome(Ng(Error(r.message)), r.env, <<"loadEnvIfNeeded", "env.get">>)
                          ELSE Outcome(Ok(r.value), r.env, <<"loadEnvIfNeeded", "env.get">>)

\* Variant of getBun: the version gate is not consulted.
getBun_NoGate(key, e, fault) ==
  LET r == CommonsEnvGet(e, key, fault)
  IN IF r.threw
     THEN Outcome(Ng(Error(r.message)), r.env, <<"env.get">>)
     ELSE Outcome(Ok(r.value), r.env, <<"env.get">>)

getBun(key, e, fault) ==
  IF ~isSatisfiesVersion
  THEN Outcome(Ng(VersionError(genericVersionError)), e, <<>>)
  ELSE LET r == CommonsEnvGet(e, key, fault)
       IN IF r.threw
          THEN Outcome(Ng(Error(r.message)), r.env, <<"env.get">>)
          ELSE Outcome(Ok(r.value), r.env, <<"env.get">>)

\* Variant of getDeno: the loader runs unless the permission is "denied".
getDeno_NotDenied(key, e, permissionState, fault) ==
  IF ~isSatisfiesVersion
  THEN Outcome(Ng(VersionError(genericVersionError)), e, <<>>)
  ELSE LET p == CommonsPermissions(e, permissionState, fault)
       IN IF p.threw
          THEN Outcome(Ng(Error(p.message)), p.env, <<"permissions">>)
          ELSE LET granted == (p.value # "denied")
                   l == IF granted THEN loadEnvIfNeeded(p.env, fault) ELSE Return(Nothing, p.env)
                   before == IF granted THEN <<"permissions", "loadEnvIfNeeded">> ELSE <<"permissions">>
               IN IF l.threw
                  THEN Outcome(Ng(Error(l.message)), l.env, before)
                  ELSE LET r == CommonsEnvGet(l.env, key, fault)
                       IN IF r.threw
                          THEN Outcome(Ng(Error(r.message)), r.env, Append(before, "env.get"))
                          ELSE Outcome(Ok(r.value), r.env, Append(before, "env.get"))

getDeno(key, e, permissionState, fault) ==
  IF ~isSatisfiesVersion
  THEN Outcome(Ng(VersionError(genericVersionError)), e, <<>>)
  ELSE LET p == CommonsPermissions(e, permissionState, fault)
       IN IF p.threw
          THEN Outcome(Ng(Error(p.message)), p.env, <<"permissions">>)
          ELSE LET granted == (p.value = "granted")
                   l == IF granted THEN loadEnvIfNeeded(p.env, fault) ELSE Return(Nothing, p.env)
                   before == IF granted THEN <<"permissions", "loadEnvIfNeeded">> ELSE <<"permissions">>
               IN IF l.threw
                  THEN Outcome(Ng(Error(l.message)), l.env, before)
                  ELSE LET r == CommonsEnvGet(l.env, key, fault)
                       IN IF r.threw
                          THEN Outcome(Ng(Error(r.message)), r.env, Append(before, "env.get"))
                          ELSE Outcome(Ok(r.value), r.env, Append(before, "env.get"))

(***************************************************************************)
(* deleteRuntimeMap                                                        *)
(***************************************************************************)
\* Variant of deleteNode: the variable is emptied, not removed.
deleteNode_SetsEmpty(key, e, fault) ==
  IF ~isSatisfiesVersion
  THEN Outcome(Ng(VersionError(genericVersionError)), e, <<>>)
  ELSE IF fault.site = "env.delete"
       THEN Outcome(Ng(Error(fault.message)), e, <<"env.delete">>)
       ELSE Outcome(Ok(Nothing), [e EXCEPT ![key] = Just("")], <<"env.delete">>)

deleteNode(key, e, fault) ==
  IF ~isSatisfiesVersion
  THEN Outcome(Ng(VersionError(genericVersionError)), e, <<>>)
  ELSE LET r == CommonsEnvDelete(e, key, fault)
       IN IF r.threw
          THEN Outcome(Ng(Error(r.message)), r.env, <<"env.delete">>)
          ELSE Outcome(Ok(r.value), r.env, <<"env.delete">>)

\* Variant of deleteBun: the catch block carries the exception's string
\* form ("Error: " and the message), not its message.
deleteBun_StringifiesError(key, e, fault) ==
  IF ~isSatisfiesVersion
  THEN Outcome(Ng(VersionError(genericVersionError)), e, <<>>)
  ELSE LET r == CommonsEnvDelete(e, key, fault)
       IN IF r.threw
          THEN Outcome(Ng(Error(<<"E","r","r","o","r",":"," ">> \o r.message)), r.env, <<"env.delete">>)
          ELSE Outcome(Ok(r.value), r.env, <<"env.delete">>)

deleteBun(key, e, fault) ==
  IF ~isSatisfiesVersion
  THEN Outcome(Ng(VersionError(genericVersionError)), e, <<>>)
  ELSE LET r == CommonsEnvDelete(e, key, fault)
       IN IF r.threw
          THEN Outcome(Ng(Error(r.message)), r.env, <<"env.delete">>)
          ELSE Outcome(Ok(r.value), r.env, <<"env.delete">>)

\* Variant of deleteDeno: the version gate is checked after the delete.
deleteDeno_GateAfter(key, e, fault) ==
  LET r == CommonsEnvDelete(e, key, fault)
  IN IF r.threw
     THEN Outcome(Ng(Error(r.message)), r.env, <<"env.delete">>)
     ELSE IF ~isSatisfiesVersion
          THEN Outcome(Ng(VersionError(genericVersionError)), r.env, <<"env.delete">>)
          ELSE Outcome(Ok(r.value), r.env, <<"env.delete">>)

deleteDeno(key, e, fault) ==
  IF ~isSatisfiesVersion
  THEN Outcome(Ng(VersionError(genericVersionError)), e, <<>>)
  ELSE LET r == CommonsEnvDelete(e, key, fault)
       IN IF r.threw
          THEN Outcome(Ng(Error(r.message)), r.env, <<"env.delete">>)
          ELSE Outcome(Ok(r.value), r.env, <<"env.delete">>)

(***************************************************************************)
(* UniEnv: the facade dispatches on RuntimeName.                           *)
(***************************************************************************)
UniEnvSet(key, value, e, fault) ==
  CASE RuntimeName = node -> setNode(key, value, e, fault)
    [] RuntimeName = bun -> setBun(key, value, e, fault)
    [] RuntimeName = deno -> setDeno(key, value, e, fault)

UniEnvGet(key, e, permissionState, fault) ==
  CASE RuntimeName = node -> getNode(key, e, fault)
    [] RuntimeName = bun -> getBun(key, e, fault)
    [] RuntimeName = deno -> getDeno(key, e, permissionState, fault)

UniEnvDelete(key, e, fault) ==
  CASE RuntimeName = node -> deleteNode(key, e, fault)
    [] RuntimeName = bun -> deleteBun(key, e, fault)
    [] RuntimeName = deno -> deleteDeno(key, e, fault)

(***************************************************************************)
(* The state machine.  last is the most recent call of the facade: its     *)
(* inputs, its result and the collaborator calls it made, in order.  prev  *)
(* and prev2 are the two calls before it, of which a successful set or     *)
(* delete is remembered with its arguments and any other call as "other".  *)
(***************************************************************************)
Other == [op |-> "other", key |-> "", value |-> ""]

Call(op, key, value, permissionState, fault, out) ==
  [op |-> op, key |-> key, value |-> value, permission |-> permissionState,
   fault |-> fault, result |-> out.result, calls |-> out.calls]

Summary(c) ==
  IF c.op \in {"set", "delete"} /\ c.result.tag = "Ok"
  THEN [op |-> c.op, key |-> c.key, value |-> c.value]
  ELSE Other

NoLast == [op |-> "none", key |-> "", value |-> "", permission |-> "n/a",
           fault |-> NoFault, result |-> Ok(Nothing), calls |-> <<>>]

\* The collaborators a get can reach on the current runtime.
GetSites ==
  CASE RuntimeName = node -> {"env.get", "loadEnvIfNeeded"}
    [] RuntimeName = bun -> {"env.get"}
    [] RuntimeName = deno -> {"env.get", "loadEnvIfNeeded", "permissions"}

Init ==
  /\ RuntimeName \in RuntimeNames
  /\ version \in [require : RequireVersions, current : CurrentVersions]
  /\ isSatisfiesVersion = moreThan(version.require, version.current)
  /\ execArgv \in (IF RuntimeName = node THEN ArgLists ELSE {<<>>})
  /\ env = EmptyEnv
  /\ last = NoLast
  /\ prev = Other
  /\ prev2 = Other

Record(c, e) ==
  /\ last' = c
  /\ prev' = Summary(last)
  /\ prev2' = prev
  /\ env' = e
  /\ UNCHANGED <<RuntimeName, version, isSatisfiesVersion, execArgv>>

Set ==
  \E key \in Keys, value \in Values :
    \E fault \in FaultsAt({"env.set"}) :
      LET out == UniEnvSet(key, value, env, fault)
      IN Record(Call("set", key, value, "n/a", fault, out), out.env)

Get ==
  \E key \in Keys, fault \in FaultsAt(GetSites) :
    \E permissionState \in (IF RuntimeName = deno THEN PermissionStates ELSE {"n/a"}) :
      LET out == UniEnvGet(key, env, permissionState, fault)
      IN Record(Call("get", key, "", permissionState, fault, out), out.env)

Delete ==
  \E key \in Keys :
    \E fault \in FaultsAt({"env.delete"}) :
      LET out == UniEnvDelete(key, env, fault)
      IN Record(Call("delete", key, "", "n/a", fault, out), out.env)

Next == Set \/ Get \/ Delete

Spec == Init /\ [][Next]_vars

(***************************************************************************)
(* Vocabulary of the properties.                                           *)
(***************************************************************************)
Called(c, site) == \E i \in DOMAIN c.calls : c.calls[i] = site
TimesCalled(c, site) == Cardinality({i \in DOMAIN c.calls : c.calls[i] = site})
Threw(c) == Called(c, c.fault.site)
EnvFileFlagPresent == \E i \in DOMAIN execArgv : startsWith(execArgv[i], EnvFilePrefix)
IsSuccess(c) == c.result.tag = "Ok"
IsFailure(c) == c.result.tag = "Ng"
IsVersionDeficiency(c) == IsFailure(c) /\ c.result.error.name = "VersionError"
IsGenericFailure(c) == IsFailure(c) /\ c.result.error.name = "Error"
IsGenericProfileDeficiency(c) == IsVersionDeficiency(c) /\ c.result.error.prop = "genericVersionError"
StoreCall(c) == CASE c.op = "set" -> "env.set" [] c.op = "get" -> "env.get" [] c.op = "delete" -> "env.delete"
GetRanLoader(c) == c.op = "get" /\ Called(c, "loadEnvIfNeeded")

\* current >= require, the components compared as numbers, major first.
VersionAtLeast(current, require) ==
  LET c == ParseVersion(current)
      r == ParseVersion(require)
      first == CHOOSE i \in 1..4 : i = 4 \/ (c[i] # r[i] /\ \A j \in 1..(i - 1) : c[j] = r[j])
  IN first = 4 \/ c[first] > r[first]

\* The text of a Version Deficiency, written out.
DeficiencyText(require, current) ==
  (IF RuntimeName = node THEN <<"N","o","d","e",".","j","s">>
   ELSE IF RuntimeName = bun THEN <<"B","u","n">> ELSE <<"D","e","n","o">>)
  \o <<" ","v","e","r","s","i","o","n"," ">> \o require
  \o <<" ","o","r"," ","h","i","g","h","e","r"," ","i","s"," ","r","e","q","u","i","r","e","d","."," ","C","u","r","r","e","n","t"," ","v","e","r","s","i","o","n",":"," ">>
  \o current

(***************************************************************************)
(* C1: on every runtime, with the version gate passing and no collaborator *)
(* throwing, a get(k) that directly follows a successful set(k, v) returns *)
(* Success whose payload is present and equal to v, also for v = "" and    *)
(* also when the get runs the Conditional Env-File Loader.                 *)
(***************************************************************************)
C1_SetThenGet ==
  (isSatisfiesVersion /\ prev.op = "set" /\ last.op = "get" /\ last.key = prev.key /\ ~Threw(last))
    => last.result = Ok(Just(prev.value))

\* A get that ran the loader returns the empty string set just before, for
\* a variable the .env file defines.
C1_Witness ==
  /\ prev = [op |-> "set", key |-> "K1", value |-> ""]
  /\ last.op = "get" /\ last.key = "K1" /\ ~Threw(last)
  /\ Called(last, "loadEnvIfNeeded")
  /\ last.result = Ok(Just(""))

(***************************************************************************)
(* C2 as stated: on every runtime, with the version gate passing and no    *)
(* collaborator throwing, set(k, v), delete(k), get(k) ends with Success   *)
(* and an absent payload, also when the get runs the loader.               *)
(***************************************************************************)
SetDeleteGet ==
  /\ isSatisfiesVersion
  /\ prev2.op = "set" /\ prev.op = "delete" /\ prev.key = prev2.key
  /\ last.op = "get" /\ last.key = prev.key /\ ~Threw(last)

C2_Original == SetDeleteGet => last.result = Ok(Nothing)

(***************************************************************************)
(* C2 amended: set(k, v), delete(k), get(k) ends with Success; the payload *)
(* is absent whenever the get does not run the loader or the .env file     *)
(* does not define k, and is present when the get runs the loader and the  *)
(* .env file defines k.                                                    *)
(***************************************************************************)
C2_SetDeleteGet ==
  SetDeleteGet =>
    /\ IsSuccess(last)
    /\ (~Called(last, "loadEnvIfNeeded") \/ last.key \notin EnvFileKeys) => last.result.payload = Nothing
    /\ (Called(last, "loadEnvIfNeeded") /\ last.key \in EnvFileKeys) => last.result.payload # Nothing

C2_Witness ==
  /\ SetDeleteGet
  /\ Called(last, "loadEnvIfNeeded")
  /\ last.key \notin EnvFileKeys
  /\ last.result = Ok(Nothing)

(***************************************************************************)
(* C3: when the current version is below the required one, every call of   *)
(* set, get and delete on every runtime returns a Version Deficiency, no   *)
(* collaborator is called, and the store after the call is the store       *)
(* before it.                                                              *)
(***************************************************************************)
C3_GateBeforeStore ==
  [][~isSatisfiesVersion =>
       /\ last'.result = Ng([name |-> "VersionError", message |-> DeficiencyText(version.require, version.current), prop |-> "genericVersionError"])
       /\ last'.calls = <<>>
       /\ env' = env]_vars

C3_Witness ==
  /\ ~isSatisfiesVersion
  /\ last.op = "delete" /\ prev.op = "other" /\ last.fault.site = "env.delete"
  /\ IsVersionDeficiency(last)
  /\ env = EmptyEnv

(***************************************************************************)
(* C4: with the version gate passing, an exception with message m thrown   *)
(* by the adapter during set or delete comes back as a Failure that is a   *)
(* Generic Failure carrying exactly m.                                     *)
(***************************************************************************)
C4_AdapterErrorWrapped ==
  (isSatisfiesVersion /\ last.op \in {"set", "delete"} /\ Threw(last))
    => /\ last.result.tag = "Ng"
       /\ last.result.error.name = "Error"
       /\ last.result.error.message = last.fault.message

C4_Witness ==
  /\ isSatisfiesVersion /\ last.op = "delete" /\ Threw(last)
  /\ last.fault.message = <<"b","o","o","m">>
  /\ IsGenericFailure(last)
  /\ last.result.error.message = <<"b","o","o","m">>

(***************************************************************************)
(* C5 as stated: a call returns Success only after its delegated store     *)
(* call succeeded, and a call that returns a Failure leaves the store as   *)
(* it was, also a get that ran the loader and then failed in the           *)
(* adapter's get.                                                          *)
(***************************************************************************)
SuccessAfterStoreCall(c) == IsSuccess(c) => (Called(c, StoreCall(c)) /\ ~Threw(c))

C5_Original ==
  [][/\ SuccessAfterStoreCall(last')
     /\ IsFailure(last') => env' = env]_vars

(***************************************************************************)
(* C5 amended: a call returns Success only after its delegated store call  *)
(* succeeded, and a call that returns a Failure leaves the store as it     *)
(* was, except that a get whose loader ran and whose adapter get then      *)
(* threw leaves the store as the loader left it.                           *)
(***************************************************************************)
C5_NoPartialSuccess ==
  [][/\ SuccessAfterStoreCall(last')
     /\ (IsFailure(last') /\ ~(GetRanLoader(last') /\ Called(last', "env.get"))) => env' = env
     /\ (IsFailure(last') /\ GetRanLoader(last') /\ Called(last', "env.get"))
          => env' = [k \in Keys |-> IF env[k] = Nothing /\ k \in EnvFileKeys THEN Just(EnvFile[k]) ELSE env[k]]]_vars

C5_Witness ==
  /\ last.op = "get" /\ IsFailure(last)
  /\ last.calls = <<"loadEnvIfNeeded", "env.get">>
  /\ prev = [op |-> "delete", key |-> "K1", value |-> ""]
  /\ env["K1"] = Just("f")

(***************************************************************************)
(* C6 as stated: on node with an --env-file= startup argument, every get   *)
(* invokes the loader zero times and calls the adapter's get.              *)
(***************************************************************************)
C6_Original ==
  (RuntimeName = node /\ EnvFileFlagPresent /\ last.op = "get")
    => (TimesCalled(last, "loadEnvIfNeeded") = 0 /\ last.calls = <<"env.get">>)

(***************************************************************************)
(* C6 amended: on node with an --env-file= startup argument, every get     *)
(* invokes the loader zero times, and with the version gate passing it     *)
(* calls the adapter's get directly.                                       *)
(***************************************************************************)
C6_FlagSkipsLoader ==
  (RuntimeName = node /\ EnvFileFlagPresent /\ last.op = "get")
    => /\ TimesCalled(last, "loadEnvIfNeeded") = 0
       /\ isSatisfiesVersion => last.calls = <<"env.get">>

C6_Witness ==
  /\ RuntimeName = node /\ EnvFileFlagPresent /\ isSatisfiesVersion
  /\ prev.op = "delete" /\ last.op = "get" /\ last.key = "K1"
  /\ last.calls = <<"env.get">>
  /\ last.result = Ok(Nothing)

(***************************************************************************)
(* C7: on node without an --env-file= startup argument and with the        *)
(* version gate passing, every get invokes the loader exactly once, and    *)
(* before the adapter's get.                                               *)
(***************************************************************************)
C7_LoaderOncePerGet ==
  (RuntimeName = node /\ ~EnvFileFlagPresent /\ isSatisfiesVersion /\ last.op = "get")
    => /\ TimesCalled(last, "loadEnvIfNeeded") = 1
       /\ last.calls[1] = "loadEnvIfNeeded"
       /\ TimesCalled(last, "env.get") <= 1
       /\ ~Threw(last) => last.calls = <<"loadEnvIfNeeded", "env.get">>

\* A get later in a sequence, with a startup argument that is not the flag.
C7_Witness ==
  /\ RuntimeName = node /\ execArgv # <<>> /\ ~EnvFileFlagPresent /\ isSatisfiesVersion
  /\ prev2.op = "set" /\ prev.op = "set" /\ last.op = "get"
  /\ last.calls = <<"loadEnvIfNeeded", "env.get">>
  /\ IsSuccess(last)

(***************************************************************************)
(* C8: on deno with the version gate passing, every get queries the        *)
(* Permission Gate exactly once; the loader is invoked, once and before    *)
(* the adapter's get, only when the answer is "granted"; for any other     *)
(* answer the loader is not invoked and the adapter's get is called.       *)
(***************************************************************************)
C8_PermissionGate ==
  (RuntimeName = deno /\ isSatisfiesVersion /\ last.op = "get")
    => /\ TimesCalled(last, "permissions") = 1
       /\ last.calls[1] = "permissions"
       /\ Called(last, "loadEnvIfNeeded") => (last.permission = "granted" /\ last.fault.site # "permissions")
       /\ (last.permission = "granted" /\ last.fault.site # "permissions")
            => (TimesCalled(last, "loadEnvIfNeeded") = 1 /\ last.calls[2] = "loadEnvIfNeeded")
       /\ (last.permission # "granted" /\ last.fault.site # "permissions")
            => last.calls = <<"permissions", "env.get">>

C8_Witness ==
  /\ RuntimeName = deno /\ isSatisfiesVersion /\ last.op = "get"
  /\ last.permission = "prompt"
  /\ last.calls = <<"permissions", "env.get">>
  /\ env["K1"] = Nothing /\ last.key = "K1" /\ last.result = Ok(Nothing)

(***************************************************************************)
(* C9: on node with the version gate passing, when the adapter's get       *)
(* throws: with an --env-file= startup argument the get returns a Version  *)
(* Deficiency of the node profile (required 20.6.0, current as reported),  *)
(* not a Generic Failure and not carrying the thrown message; without the  *)
(* argument it returns a Generic Failure carrying the thrown message.      *)
(***************************************************************************)
C9_NodeGetErrorClass ==
  (RuntimeName = node /\ isSatisfiesVersion /\ last.op = "get" /\ last.fault.site = "env.get")
    => /\ EnvFileFlagPresent =>
            /\ IsVersionDeficiency(last)
            /\ last.result.error.message = DeficiencyText(<<"2","0",".","6",".","0">>, version.current)
            /\ last.result.error.message # last.fault.message
       /\ ~EnvFileFlagPresent =>
            /\ IsGenericFailure(last)
            /\ last.result.error.message = last.fault.message

C9_Witness ==
  /\ RuntimeName = node /\ isSatisfiesVersion /\ EnvFileFlagPresent
  /\ last.op = "get" /\ Threw(last)
  /\ IsVersionDeficiency(last)
  /\ version.require # <<"2","0",".","6",".","0">>

(***************************************************************************)
(* C10: the version gate never changes after start-up, and every call      *)
(* sees the same outcome of it: a call returns the Version Deficiency of   *)
(* the generic profile exactly when the current version is below the       *)
(* required one, and exactly when the call before it did.                  *)
(***************************************************************************)
C10_GateFixed ==
  [][/\ isSatisfiesVersion' = isSatisfiesVersion
     /\ version' = version
     /\ isSatisfiesVersion = VersionAtLeast(version.current, version.require)
     /\ IsGenericProfileDeficiency(last') <=> ~isSatisfiesVersion
     /\ last.op # "none" => (IsGenericProfileDeficiency(last') <=> IsGenericProfileDeficiency(last))]_vars

C10_Witness ==
  /\ ~isSatisfiesVersion
  /\ last.op = "get" /\ prev.op = "other" /\ RuntimeName = bun
  /\ IsGenericProfileDeficiency(last)

============================================================================
